---- MODULE Spec2Model ----
(***************************************************************************)
(* A model of rir-ip-info.py: the decomposition of a delegation record     *)
(* into CIDR blocks (prefix_len_by_num_of_ip, process_ip_range), the whois *)
(* enrichment of each block (fetch_ripe_whois, fetch_organization_info),   *)
(* the thread pool of main() that runs one process_ip_range per record,    *)
(* the collection of the futures' results and prefix_info_list_to_file.    *)
(*                                                                         *)
(* An IP address is a pair of 16-bit halves [hi, lo] (value hi*2^16 + lo)  *)
(* so that the whole 32-bit space, its upper end included, is within the   *)
(* integers the model checker computes with.  For IPv6 addresses lo is the *)
(* lowest 16 bits and hi stands for the upper 112 bits.                    *)
(***************************************************************************)
EXTENDS Integers, Sequences, FiniteSets, TLC

VARIABLES
    records,          \* main: the (start, count, version) of each ledger line matched
    org_info_fields,  \* args.org_info
    unit,             \* one future per record: the process_ip_range call and its locals
    lookups,          \* history: the whois response each block of each unit met
    collected,        \* main: the futures as_completed has yielded so far, in order
    results,          \* main: the list the futures' results are extended into
    mainpc,           \* main: "collecting", "aborted" (an exception left main), "written"
    file,             \* the output file prefix_info_list_to_file wrote
    pool              \* counting view of the executor: units queued, running, in a call, done

vars == <<records, org_info_fields, unit, lookups, collected, results, mainpc, file, pool>>

-----------------------------------------------------------------------------
(* Bounds of the model *)

\* SpecDecompose: IPv4 unit counts 0..MaxCount
MaxCount == 20
\* SpecDecompose: start addresses 0..MaxStart above 0.0.0.0 and 1..MaxStart+1 below the top
MaxStart == 9
\* SpecEnrich: at most this many {key, value} entries in one whois answer
MaxEntries == 3
\* Spec: at most this many records in the ledger
MaxRecords == 2
\* Spec: IPv4 unit counts 0..PipeMaxCount
PipeMaxCount == 3
\* Spec: IPv6 prefix lengths 128-MaxV6HostBits..128
MaxV6HostBits == 1
\* SpecPool: up to max_workers + PoolExtra records submitted
PoolExtra == 2

-----------------------------------------------------------------------------
(* Program constants *)

V4Bits == 32
V6Bits == 128
max_workers == 40

None == "None"
Unknown == "Unknown"

-----------------------------------------------------------------------------
(* ipaddress: addresses and networks *)

Half == 2 ^ 16

Bits(version) == IF version = 4 THEN V4Bits ELSE V6Bits

\* ipaddress.ip_address(a) + n, before the range check of the constructor
AddrAdd(a, n) ==
    LET s == a.lo + n
    IN  [hi |-> a.hi + (s \div Half), lo |-> s % Half]

\* the constructor raises AddressValueError for an IPv4 value of 2^32 or more
AddrOverflow(a) == a.hi >= Half

\* ipaddress.ip_network((addr, len), strict=False): the host bits are masked off
ip_network(addr, len, version) ==
    LET hostbits == Bits(version) - len
    IN  [addr |-> IF hostbits <= 16
                  THEN [hi |-> addr.hi, lo |-> addr.lo - (addr.lo % (2 ^ hostbits))]
                  ELSE [hi |-> addr.hi - (addr.hi % (2 ^ (hostbits - 16))), lo |-> 0],
         len  |-> len]

-----------------------------------------------------------------------------
(* prefix_len_by_num_of_ip *)

RECURSIVE FloorLog2(_)
\* math.floor(math.log2(n)) for n >= 1
FloorLog2(n) == IF n < 2 THEN 0 ELSE 1 + FloorLog2(n \div 2)

\* a decomposition that keeps only the largest block
PrefixLenNoRemainder(num_of_ip) == <<V4Bits - FloorLog2(num_of_ip)>>

RECURSIVE PrefixLenAscending(_)
\* a decomposition that emits the remainder's blocks before the largest block
PrefixLenAscending(num_of_ip) ==
    LET bits_needed == FloorLog2(num_of_ip)
    IN  IF num_of_ip # 2 ^ bits_needed
        THEN PrefixLenAscending(num_of_ip - 2 ^ bits_needed)
                 \o <<V4Bits - bits_needed>>
        ELSE <<V4Bits - bits_needed>>

RECURSIVE prefix_len_by_num_of_ip(_)
prefix_len_by_num_of_ip(num_of_ip) ==
    LET bits_needed == FloorLog2(num_of_ip)
    IN  IF num_of_ip # 2 ^ bits_needed
        THEN <<V4Bits - bits_needed>>
                 \o prefix_len_by_num_of_ip(num_of_ip - 2 ^ bits_needed)
        ELSE <<V4Bits - bits_needed>>

-----------------------------------------------------------------------------
(* dict: an insertion-ordered sequence of [key, value] pairs *)

DictKeys(d) == [j \in 1..Len(d) |-> d[j].key]

DictHas(d, k) == \E j \in 1..Len(d) : d[j].key = k

DictGet(d, k) == d[CHOOSE j \in 1..Len(d) : d[j].key = k].value

\* d[k] = v
DictSet(d, k, v) ==
    IF DictHas(d, k)
    THEN [j \in 1..Len(d) |-> IF d[j].key = k THEN [key |-> k, value |-> v] ELSE d[j]]
    ELSE Append(d, [key |-> k, value |-> v])

\* list.remove(x): the first occurrence of x is removed
ListRemove(l, x) ==
    LET j == CHOOSE m \in 1..Len(l) : l[m] = x /\ \A n \in 1..(m - 1) : l[n] # x
    IN  SubSeq(l, 1, j - 1) \o SubSeq(l, j + 1, Len(l))

-----------------------------------------------------------------------------
(* The whois service: what one GET of stat.ripe.net/data/whois can come to *)

NoValue == "<no value>"

\* the {key, value} entries of whois records; an entry may carry no "value"
Entries ==
    { [key |-> "netname", value |-> "A"],
      [key |-> "netname", value |-> "B"],
      [key |-> "status",  value |-> "S"],
      [key |-> "status",  value |-> NoValue],
      [key |-> "descr",   value |-> "D"] }

EntrySeqs(n) == UNION { [1..m -> Entries] : m \in 0..n }

RECURSIVE Splits(_)
\* every way to cut a sequence of entries into consecutive non-empty records
Splits(s) ==
    IF s = <<>> THEN { <<>> }
    ELSE UNION { { <<SubSeq(s, 1, m)>> \o rest : rest \in Splits(SubSeq(s, m + 1, Len(s))) }
                 : m \in 1..Len(s) }

WhoisData(n) == UNION { Splits(s) : s \in EntrySeqs(n) }

Response(sent, http_status, is_json, status, status_code, has_records, recs) ==
    [sent |-> sent, http_status |-> http_status, is_json |-> is_json,
     status |-> status, status_code |-> status_code,
     has_records |-> has_records, records |-> recs]

OkResponse(recs) == Response(TRUE, 200, TRUE, "ok", 200, TRUE, recs)

TransportError == Response(FALSE, 0, FALSE, "", 0, FALSE, <<>>)
HttpError      == Response(TRUE, 500, TRUE, "error", 500, FALSE, <<>>)
BadJson        == Response(TRUE, 200, FALSE, "", 0, FALSE, <<>>)
NotOkEnvelope  == Response(TRUE, 200, TRUE, "error", 500, FALSE, <<>>)
NoRecordsKey   == Response(TRUE, 200, TRUE, "ok", 200, FALSE, <<>>)

FailedResponses == {TransportError, HttpError, BadJson, NotOkEnvelope, NoRecordsKey}

\* SpecEnrich: every failure and every answer of up to MaxEntries entries
AllResponses == FailedResponses \cup { OkResponse(d) : d \in WhoisData(MaxEntries) }

\* Spec: a lookup that returns nothing, one that raises, and one answer
PipeResponses ==
    { TransportError, HttpError,
      OkResponse(<< << [key |-> "netname", value |-> "A"],
                       [key |-> "status", value |-> "S"] >> >>) }

-----------------------------------------------------------------------------
(* fetch_ripe_whois, fetch_organization_info *)

Raise(exc)  == [tag |-> "raise", error |-> exc]
Return(val) == [tag |-> "return", value |-> val]
ReturnNone  == [tag |-> "none"]

fetch_ripe_whois(resp) ==
    IF ~resp.sent THEN ReturnNone
    ELSE IF resp.http_status >= 400 THEN Raise("HTTPError")
    ELSE IF ~resp.is_json THEN Raise("JSONDecodeError")
    ELSE IF resp.status = "ok" /\ resp.status_code = 200
         THEN Return([has_records |-> resp.has_records, records |-> resp.records])
         ELSE ReturnNone

\* entry.get("value", "Unknown")
EntryValue(entry) == IF entry.value = NoValue THEN Unknown ELSE entry.value

\* a scan of one entry that leaves a found field in the scan list
ScanEntryNoRemove(entry, st) ==
    IF \E j \in 1..Len(st.info_fields) : st.info_fields[j] = entry.key
    THEN [info_fields |-> st.info_fields,
          org_info    |-> DictSet(st.org_info, entry.key, EntryValue(entry))]
    ELSE st

\* for field in info_fields: if entry.get("key") == field: set, remove, break
ScanEntry(entry, st) ==
    IF \E j \in 1..Len(st.info_fields) : st.info_fields[j] = entry.key
    THEN LET j     == CHOOSE m \in 1..Len(st.info_fields) :
                          /\ st.info_fields[m] = entry.key
                          /\ \A n \in 1..(m - 1) : st.info_fields[n] # entry.key
             field == st.info_fields[j]
         IN  [info_fields |-> ListRemove(st.info_fields, field),
              org_info    |-> DictSet(st.org_info, field, EntryValue(entry))]
    ELSE st

RECURSIVE ScanRecord(_, _)
\* for entry in record
ScanRecord(record, st) ==
    IF record = <<>> THEN st
    ELSE ScanRecord(Tail(record), ScanEntry(Head(record), st))

RECURSIVE ScanRecords(_, _)
\* for record in whois["records"]
ScanRecords(recs, st) ==
    IF recs = <<>> THEN st
    ELSE ScanRecords(Tail(recs), ScanRecord(Head(recs), st))

fetch_organization_info(resp, org_info) ==
    LET info_fields == DictKeys(org_info)
        whois == fetch_ripe_whois(resp)
    IN  IF whois.tag = "raise" THEN whois
        ELSE IF whois.tag = "none" THEN Return(org_info)
        ELSE IF ~whois.value.has_records THEN Raise("KeyError")
        ELSE Return(ScanRecords(whois.value.records,
                                [info_fields |-> info_fields,
                                 org_info |-> org_info]).org_info)

-----------------------------------------------------------------------------
(* process_ip_range: one call per record, run by a worker of the pool *)

Range(l) == { l[j] : j \in 1..Len(l) }

\* what a future holds before a worker takes it
Queued(rec) ==
    [state |-> "queued", length_list |-> <<>>, pos |-> 1,
     curr_ip |-> rec.start, next_ip |-> rec.start, json_list |-> <<>>, error |-> ""]

\* the pool starts a work item only while fewer than max_workers are running
WorkerAvailableUnbounded(running) == TRUE

WorkerAvailable(running) == running < max_workers

Running == { j \in DOMAIN unit : unit[j].state = "running" }

\* math.log2 raises ValueError for a count of 0 or less
Log2Raises(length) == length <= 0

\* a worker takes the next work item of the queue and runs the call up to its loop
Start(i) ==
    /\ unit[i].state = "queued"
    /\ \A j \in 1..(i - 1) : unit[j].state # "queued"
    /\ WorkerAvailable(Cardinality(Running))
    /\ LET rec == records[i]
       IN  unit' = [unit EXCEPT ![i] =
              IF rec.version = 4 /\ Log2Raises(rec.count)
              THEN [@ EXCEPT !.state = "failed", !.error = "ValueError"]
              ELSE [@ EXCEPT !.state = "running",
                             !.length_list = IF rec.version = 4
                                             THEN prefix_len_by_num_of_ip(rec.count)
                                             ELSE <<rec.count>>,
                             !.curr_ip = rec.start,
                             !.next_ip = rec.start]]
    /\ UNCHANGED <<records, org_info_fields, lookups, collected, results, mainpc, file, pool>>

\* org_info = dict(); for key in org_info_fields: org_info[key] = None
RECURSIVE Placeholders(_, _)
Placeholders(fields, d) ==
    IF fields = <<>> THEN d
    ELSE Placeholders(Tail(fields), DictSet(d, Head(fields), None))

\* one iteration of the loop over length_list, the whois answer being resp
Iteration(i, resp) ==
    LET u    == unit[i]
        rec  == records[i]
        len  == u.length_list[u.pos]
        v4   == rec.version = 4
        curr == IF v4 THEN u.next_ip ELSE u.curr_ip
        next == IF v4 THEN AddrAdd(u.next_ip, 2 ^ (V4Bits - len)) ELSE u.next_ip
        prefix_notation == ip_network(curr, len, rec.version)
        org_info == IF org_info_fields # <<>>
                    THEN fetch_organization_info(resp, Placeholders(org_info_fields, <<>>))
                    ELSE Return(<<>>)
        json == [prefix_notation |-> prefix_notation, length |-> len,
                 version |-> rec.version, org_info |-> org_info.value]
    IN  IF v4 /\ AddrOverflow(next)
        THEN /\ unit' = [unit EXCEPT ![i].state = "failed",
                                     ![i].error = "AddressValueError"]
             /\ UNCHANGED lookups
        ELSE /\ lookups' = IF org_info_fields # <<>>
                           THEN [lookups EXCEPT ![i] = Append(@, resp)]
                           ELSE lookups
             /\ unit' = [unit EXCEPT ![i] =
                   IF org_info.tag = "raise"
                   THEN [@ EXCEPT !.state = "failed", !.error = org_info.error,
                                  !.curr_ip = curr, !.next_ip = next]
                   ELSE [@ EXCEPT !.pos = @ + 1, !.curr_ip = curr, !.next_ip = next,
                                  !.json_list = Append(@, json)]]

StepWith(i, responses) ==
    /\ unit[i].state = "running"
    /\ unit[i].pos <= Len(unit[i].length_list)
    /\ \E resp \in responses : Iteration(i, resp)
    /\ UNCHANGED <<records, org_info_fields, collected, results, mainpc, file, pool>>

\* return json_list: the future is done
ReturnList(i) ==
    /\ unit[i].state = "running"
    /\ unit[i].pos > Len(unit[i].length_list)
    /\ unit' = [unit EXCEPT ![i].state = "done"]
    /\ UNCHANGED <<records, org_info_fields, lookups, collected, results, mainpc, file, pool>>

-----------------------------------------------------------------------------
(* main: the collection of the futures and the output file *)

\* a total that adds the length field itself, as if it were an address count
BlockSizeAsCount(ip_info) == ip_info.length

\* 2 ** (32 - length) or 2 ** (128 - length)
BlockSize(ip_info) == 2 ^ (Bits(ip_info.version) - ip_info.length)

RECURSIVE TotalIpAddresses(_)
TotalIpAddresses(ip_info_list) ==
    IF ip_info_list = <<>> THEN 0
    ELSE BlockSize(Head(ip_info_list)) + TotalIpAddresses(Tail(ip_info_list))

prefix_info_list_to_file(ip_info_list, fields) ==
    [lines |-> [k \in 1..Len(ip_info_list) |->
                  [prefix |-> ip_info_list[k].prefix_notation,
                   values |-> [j \in 1..Len(fields) |->
                                 DictGet(ip_info_list[k].org_info, fields[j])]]],
     total |-> TotalIpAddresses(ip_info_list)]

\* results = future.result(): the blocks collected before are lost
ResultsAssign(res, json_list) == json_list

\* the blocks of a record appended last block first
ResultsExtendReversed(res, json_list) ==
    res \o [j \in 1..Len(json_list) |-> json_list[Len(json_list) + 1 - j]]

\* results.extend(future.result())
ResultsExtend(res, json_list) == res \o json_list

\* as_completed yields a finished future; future.result() returns or raises
Collect(i) ==
    /\ mainpc = "collecting"
    /\ i \notin Range(collected)
    /\ unit[i].state \in {"done", "failed"}
    /\ IF unit[i].state = "failed"
       THEN /\ mainpc' = "aborted"
            /\ UNCHANGED <<collected, results>>
       ELSE /\ results' = ResultsExtend(results, unit[i].json_list)
            /\ collected' = Append(collected, i)
            /\ UNCHANGED mainpc
    /\ UNCHANGED <<records, org_info_fields, unit, lookups, file, pool>>

\* every future was yielded: the file is written
WriteFile ==
    /\ mainpc = "collecting"
    /\ Len(collected) = Len(records)
    /\ file' = prefix_info_list_to_file(results, org_info_fields)
    /\ mainpc' = "written"
    /\ UNCHANGED <<records, org_info_fields, unit, lookups, collected, results, pool>>

-----------------------------------------------------------------------------
(* The executor seen as counters: how many work items are queued, running, *)
(* inside requests.get, and done.  The items' contents are left out, so    *)
(* more records than max_workers can be submitted.                         *)

NoPool == [queued |-> 0, running |-> 0, calling |-> 0, done |-> 0]

\* a worker takes a work item of the queue
PoolStart ==
    /\ pool.queued > 0
    /\ WorkerAvailable(pool.running)
    /\ pool' = [pool EXCEPT !.queued = @ - 1, !.running = @ + 1]
    /\ UNCHANGED <<records, org_info_fields, unit, lookups, collected, results, mainpc, file>>

\* a running unit enters requests.get for its next block
PoolCall ==
    /\ pool.calling < pool.running
    /\ pool' = [pool EXCEPT !.calling = @ + 1]
    /\ UNCHANGED <<records, org_info_fields, unit, lookups, collected, results, mainpc, file>>

\* requests.get returns or raises
PoolCallEnds ==
    /\ pool.calling > 0
    /\ pool' = [pool EXCEPT !.calling = @ - 1]
    /\ UNCHANGED <<records, org_info_fields, unit, lookups, collected, results, mainpc, file>>

\* a unit that is not inside a call returns or raises: its worker is free again
PoolFinish ==
    /\ pool.calling < pool.running
    /\ pool' = [pool EXCEPT !.running = @ - 1, !.done = @ + 1]
    /\ UNCHANGED <<records, org_info_fields, unit, lookups, collected, results, mainpc, file>>

-----------------------------------------------------------------------------
(* Inputs *)

V4Record(start, count) == [version |-> 4, start |-> start, count |-> count]
V6Record(start, len)   == [version |-> 6, start |-> start, count |-> len]

\* SpecDecompose: starts at the bottom of the space, across a 2^16 boundary, at the
\* top of the space, and 1.2.3.0
DecomposeStarts ==
    { [hi |-> 0, lo |-> k] : k \in 0..MaxStart }
    \cup { [hi |-> h, lo |-> Half - k] : h \in {0, Half - 1}, k \in 1..(MaxStart + 1) }
    \cup { [hi |-> 258, lo |-> 768] }

DecomposeCounts == (0..MaxCount) \cup {256, 768}

DecomposeRecords == { V4Record(a, n) : a \in DecomposeStarts, n \in DecomposeCounts }

FieldLists ==
    { <<>>, <<"netname">>, <<"status">>, <<"netname", "status">>,
      <<"status", "netname">>, <<"netname", "netname">> }

\* Spec: records of the pipeline
PipeRecords ==
    { V4Record([hi |-> 258, lo |-> 768], n) : n \in 0..PipeMaxCount }
    \cup { V4Record([hi |-> 258, lo |-> 1024], 3) }
    \cup { V4Record([hi |-> Half - 1, lo |-> Half - 2], 2) }
    \cup { V6Record([hi |-> 8193, lo |-> 1], V6Bits - h) : h \in 0..MaxV6HostBits }

PipeFieldLists == { <<>>, <<"status", "netname">> }

InitWith(recs, fields) ==
    /\ records = recs
    /\ org_info_fields = fields
    /\ unit = [i \in 1..Len(recs) |-> Queued(recs[i])]
    /\ lookups = [i \in 1..Len(recs) |-> <<>>]
    /\ collected = <<>>
    /\ results = <<>>
    /\ mainpc = "collecting"
    /\ file = [lines |-> <<>>, total |-> 0]
    /\ pool = NoPool

-----------------------------------------------------------------------------
(* Spec: main() over a ledger of up to MaxRecords records *)

Init ==
    \E recs \in UNION { [1..n -> PipeRecords] : n \in 0..MaxRecords } :
        \E fields \in PipeFieldLists : InitWith(recs, fields)

Step(i) == StepWith(i, PipeResponses)

Next ==
    \/ \E i \in DOMAIN unit : Start(i)
    \/ \E i \in DOMAIN unit : Step(i)
    \/ \E i \in DOMAIN unit : ReturnList(i)
    \/ \E i \in DOMAIN unit : Collect(i)
    \/ WriteFile

Spec == Init /\ [][Next]_vars

(* SpecDecompose: one process_ip_range call on an IPv4 record, no enrichment *)

InitDecompose == \E rec \in DecomposeRecords : InitWith(<<rec>>, <<>>)

NextDecompose ==
    \/ \E i \in DOMAIN unit : Start(i)
    \/ \E i \in DOMAIN unit : Step(i)
    \/ \E i \in DOMAIN unit : ReturnList(i)

SpecDecompose == InitDecompose /\ [][NextDecompose]_vars

(* SpecEnrich: one process_ip_range call on a one-block record, any whois answer *)

InitEnrich ==
    \E fields \in FieldLists :
        InitWith(<<V4Record([hi |-> 258, lo |-> 768], 1)>>, fields)

StepEnrich(i) == StepWith(i, AllResponses)

NextEnrich ==
    \/ \E i \in DOMAIN unit : Start(i)
    \/ \E i \in DOMAIN unit : StepEnrich(i)
    \/ \E i \in DOMAIN unit : ReturnList(i)

SpecEnrich == InitEnrich /\ [][NextEnrich]_vars

(* SpecPool: the executor with up to max_workers + PoolExtra records submitted *)

InitPool ==
    \E n \in 1..(max_workers + PoolExtra) :
        /\ records = <<>>
        /\ org_info_fields = <<>>
        /\ unit = <<>>
        /\ lookups = <<>>
        /\ collected = <<>>
        /\ results = <<>>
        /\ mainpc = "collecting"
        /\ file = [lines |-> <<>>, total |-> 0]
        /\ pool = [queued |-> n, running |-> 0, calling |-> 0, done |-> 0]

NextPool == PoolStart \/ PoolCall \/ PoolCallEnds \/ PoolFinish

SpecPool == InitPool /\ [][NextPool]_vars

-----------------------------------------------------------------------------
(* Properties *)

Finished(i) == unit[i].state = "done"

Decomposed(i) ==
    /\ records[i].version = 4
    /\ records[i].count > 0
    /\ unit[i].state \in {"running", "done"}

\* the size of the network a CIDR notation names
NotationSize(prefix_notation, version) ==
    2 ^ ((IF version = 4 THEN V4Bits ELSE V6Bits) - prefix_notation.len)

RECURSIVE SumPrefixSizes(_)
\* the sum of 2^(32 - prefixLength) over a list of prefix lengths
SumPrefixSizes(ll) ==
    IF ll = <<>> THEN 0 ELSE 2 ^ (V4Bits - Head(ll)) + SumPrefixSizes(Tail(ll))

RECURSIVE SumNotationSizes(_)
SumNotationSizes(blocks) ==
    IF blocks = <<>> THEN 0
    ELSE NotationSize(Head(blocks).prefix_notation, Head(blocks).version)
             + SumNotationSizes(Tail(blocks))

\* C1: the blocks of an IPv4 record with unitCount > 0 are contiguous from the
\* record's start address: the first block begins at the start address and each
\* following block begins right after the end of the block before it.
C1_BlocksContiguousFromStart ==
    \A i \in DOMAIN unit :
        Decomposed(i) =>
            LET jl == unit[i].json_list
            IN  /\ Len(jl) >= 1 => jl[1].prefix_notation.addr = records[i].start
                /\ \A k \in 1..(Len(jl) - 1) :
                       jl[k + 1].prefix_notation.addr =
                           AddrAdd(jl[k].prefix_notation.addr,
                                   NotationSize(jl[k].prefix_notation, 4))

\* C2: for an IPv4 unitCount > 0 the sizes 2^(32 - prefixLength) of the prefix
\* lengths prefix_len_by_num_of_ip returns sum to unitCount, and so do the sizes
\* of the blocks process_ip_range returns for the record.
C2_BlockSizesSumToUnitCount ==
    \A i \in DOMAIN unit :
        Decomposed(i) =>
            /\ SumPrefixSizes(unit[i].length_list) = records[i].count
            /\ Finished(i) =>
                   /\ Len(unit[i].json_list) = Len(unit[i].length_list)
                   /\ SumNotationSizes(unit[i].json_list) = records[i].count

C2_Witness ==
    \E i \in DOMAIN unit :
        /\ Decomposed(i) /\ Finished(i)
        /\ records[i].count = 19
        /\ Len(unit[i].json_list) = 3

\* the exponents of the powers of two in n's binary expansion
SetBits(n) == { e \in 0..30 : (n \div (2 ^ e)) % 2 = 1 }

\* floor(log2(r)) for r >= 1, by its definition
Log2Floor(r) == CHOOSE e \in 0..30 : 2 ^ e <= r /\ r < 2 ^ (e + 1)

\* C8: prefix_len_by_num_of_ip(unitCount) is the greedy decomposition, largest
\* power of two first: block k has size 2^floor(log2(remaining_k)), the sizes are
\* strictly decreasing and are the powers of two of unitCount's binary expansion,
\* a power of two gives exactly one block, and nothing remains at the end.
C8_GreedyBinaryDecomposition ==
    \A i \in DOMAIN unit :
        Decomposed(i) =>
            LET ll == unit[i].length_list
                n  == records[i].count
                remaining(k) == n - SumPrefixSizes(SubSeq(ll, 1, k - 1))
            IN  /\ \A k \in 1..Len(ll) :
                       /\ remaining(k) >= 1
                       /\ ll[k] = V4Bits - Log2Floor(remaining(k))
                /\ \A k \in 1..(Len(ll) - 1) : ll[k] < ll[k + 1]
                /\ { V4Bits - ll[k] : k \in 1..Len(ll) } = SetBits(n)
                /\ Len(ll) = Cardinality(SetBits(n))
                /\ Cardinality(SetBits(n)) = 1 => ll = << V4Bits - Log2Floor(n) >>
                /\ remaining(Len(ll) + 1) = 0

C8_Witness ==
    \E i \in DOMAIN unit :
        /\ Decomposed(i)
        /\ records[i].count = 13
        /\ unit[i].length_list = <<29, 30, 32>>

-----------------------------------------------------------------------------

\* a whois answer fetch_organization_info can read entries from
Answered(resp) ==
    /\ resp.sent /\ resp.http_status < 400 /\ resp.is_json
    /\ resp.status = "ok" /\ resp.status_code = 200
    /\ resp.has_records

LookupFailed(resp) == ~Answered(resp)

RECURSIVE Flatten(_)
\* the entries of an answer in record order, then entry order
Flatten(recs) == IF recs = <<>> THEN <<>> ELSE Head(recs) \o Flatten(Tail(recs))

\* the value the first entry with key f carries, or the placeholder
FirstValue(resp, f) ==
    LET flat == Flatten(resp.records)
        hits == { j \in 1..Len(flat) : flat[j].key = f }
    IN  IF ~Answered(resp) \/ hits = {} THEN None
        ELSE LET j == CHOOSE m \in hits : \A n \in hits : m <= n
             IN  IF flat[j].value = NoValue THEN Unknown ELSE flat[j].value

\* C10: a block process_ip_range returns has an entry for every wanted field and
\* for no other name; a field's value is that of the first answer entry with its
\* key, whatever follows it, and a field no entry matches keeps its placeholder.
C10_FirstMatchPerWantedField ==
    \A i \in DOMAIN unit :
        \A k \in 1..Len(unit[i].json_list) :
            LET org == unit[i].json_list[k].org_info
            IN  /\ Range(DictKeys(org)) = Range(org_info_fields)
                /\ Len(org) = Cardinality(Range(org_info_fields))
                /\ org_info_fields # <<>> =>
                       \A f \in Range(org_info_fields) :
                           DictGet(org, f) = FirstValue(lookups[i][k], f)

C10_Witness ==
    \E i \in DOMAIN unit :
        /\ Finished(i)
        /\ org_info_fields = <<"netname", "status">>
        /\ Len(unit[i].json_list) = 1
        /\ lookups[i][1] = OkResponse(<< << [key |-> "netname", value |-> "A"] >>,
                                         << [key |-> "netname", value |-> "B"],
                                            [key |-> "status", value |-> "S"] >> >>)
        /\ DictGet(unit[i].json_list[1].org_info, "netname") = "A"
        /\ DictGet(unit[i].json_list[1].org_info, "status") = "S"

\* C3: when the lookup for a block fails, the block is still emitted with every
\* wanted field equal to "Unknown", and the run goes on to write its output.
C3_FailedLookupYieldsUnknownBlock ==
    \A i \in DOMAIN unit :
        \A k \in 1..Len(lookups[i]) :
            LookupFailed(lookups[i][k]) =>
                /\ unit[i].state # "failed"
                /\ mainpc # "aborted"
                /\ k <= Len(unit[i].json_list)
                /\ \A f \in Range(org_info_fields) :
                       DictGet(unit[i].json_list[k].org_info, f) = Unknown

\* C4: a unit that fails does not abort the run.
C4_FailedUnitDoesNotAbortRun ==
    (\E i \in DOMAIN unit : unit[i].state = "failed") => mainpc # "aborted"

-----------------------------------------------------------------------------

\* how many times b occurs in the list l
Occurrences(l, b) == Cardinality({ k \in 1..Len(l) : l[k] = b })

RECURSIVE SumOver(_, _)
\* the sum of f[i] over the indices i of the set S
SumOver(f, S) ==
    IF S = {} THEN 0
    ELSE LET i == CHOOSE j \in S : TRUE IN f[i] + SumOver(f, S \ {i})

AllBlocks == Range(results) \cup UNION { Range(unit[i].json_list) : i \in DOMAIN unit }

\* C5: when no unit fails, the written result holds the blocks of every record
\* exactly once, whatever the order the units completed in, and for IPv4 records
\* the total is the sum of the records' unit counts.
C5_EveryBlockExactlyOnce ==
    mainpc = "written" =>
        /\ \A i \in DOMAIN unit : Finished(i)
        /\ \A b \in AllBlocks :
               Occurrences(results, b) =
                   SumOver([i \in DOMAIN unit |-> Occurrences(unit[i].json_list, b)],
                           DOMAIN unit)
        /\ Len(file.lines) = Len(results)
        /\ (\A i \in DOMAIN records : records[i].version = 4) =>
               file.total = SumOver([i \in DOMAIN records |-> records[i].count],
                                    DOMAIN records)

C5_Witness ==
    /\ mainpc = "written"
    /\ Len(records) = 2
    /\ \A i \in DOMAIN records : records[i].version = 4 /\ records[i].count = 3
    /\ collected = <<2, 1>>
    /\ Len(results) = 4

RECURSIVE ConcatLists(_, _)
\* the json_lists of the units named by order, one after the other
ConcatLists(order, u) ==
    IF order = <<>> THEN <<>>
    ELSE u[Head(order)].json_list \o ConcatLists(Tail(order), u)

\* C7: at every moment the result list is the json_lists of the collected
\* records one after the other, each whole and in the order its unit produced it.
C7_RecordBlocksAdjacentInOrder ==
    /\ results = ConcatLists(collected, unit)
    /\ \A j, k \in 1..Len(collected) : j # k => collected[j] # collected[k]

C7_Witness ==
    /\ mainpc = "written"
    /\ collected = <<2, 1>>
    /\ Len(unit[1].json_list) = 2
    /\ Len(unit[2].json_list) = 2
    /\ unit[1].json_list # unit[2].json_list
    /\ results = unit[2].json_list \o unit[1].json_list

\* C9: the total written is the sum, over the lines written, of
\* 2^(maxBits - prefixLength) of the line's own CIDR notation, and it is the same
\* sum taken record by record in ledger order, whatever order the blocks came in.
C9_TotalIsSumOfNotationSizes ==
    mainpc = "written" =>
        /\ Len(file.lines) = Len(results)
        /\ file.total =
               SumOver([k \in 1..Len(file.lines) |->
                           NotationSize(file.lines[k].prefix, results[k].version)],
                       1..Len(file.lines))
        /\ file.total =
               SumOver([i \in DOMAIN unit |-> SumNotationSizes(unit[i].json_list)],
                       DOMAIN unit)

C9_Witness ==
    /\ mainpc = "written"
    /\ Len(records) = 2
    /\ records[1].version = 4 /\ records[1].count = 3
    /\ records[2].version = 6 /\ records[2].count = 127
    /\ collected = <<2, 1>>
    /\ file.total = 5

\* C6: at most max_workers units run at once, so at most max_workers whois calls
\* are in flight, however many records were submitted.
C6_AtMostMaxWorkersInFlight ==
    /\ pool.running <= max_workers
    /\ pool.calling <= max_workers

C6_Witness ==
    /\ pool.queued = PoolExtra
    /\ pool.running = max_workers
    /\ pool.calling = max_workers

====
